---- MODULE Spec2Model ----
(***************************************************************************)
(* Data-access tier of the livestreaming service (webapp/rust/src/main.rs):*)
(* the four read-through caches built on MySqlResultCache, the handlers    *)
(* that read and invalidate them, and reserve_livestream_handler's         *)
(* locked read-then-decrement of reservation_slots.                        *)
(*                                                                         *)
(* The relational store is modelled at its interface: a committed state,   *)
(* per-transaction uncommitted writes that become visible at COMMIT and    *)
(* vanish at ROLLBACK (dropping a sqlx Transaction rolls it back), row     *)
(* locks taken by SELECT ... FOR UPDATE / UPDATE / DELETE and held until   *)
(* the transaction ends, and non-locking reads under InnoDB's default      *)
(* isolation level (REPEATABLE READ; the program sets none): the first     *)
(* non-locking read of a transaction fixes its read view, and every        *)
(* non-locking read returns that view plus the transaction's own writes.   *)
(*                                                                         *)
(* The cache is moka::future::Cache: get_with(key, init) returns the entry *)
(* if present; otherwise one caller per key evaluates init and inserts its *)
(* value while callers arriving meanwhile wait for that value; invalidate  *)
(* removes the entry and does not touch an evaluation in flight.           *)
(***************************************************************************)
EXTENDS Integers, FiniteSets, Sequences, TLC

\* ---------------------------------------------------------------- bounds
NSlots == 2      \* reservation_slots rows of the dataset
MaxCap == 1      \* largest initial slot capacity of the dataset
NUsers == 2      \* users of the dataset
MaxIcon == 2     \* distinct icon hashes that can be posted
MaxRestarts == 1 \* requests served by tasks that had already served one
MaxSeq == 4      \* requests that follow the first when one task serves them in turn
MaxRounds == 2   \* requests that follow the first among those that moderate

\* ------------------------------------------------------------- constants
\* Booking window [TermStart, TermEnd), on a scale where a slot is 2 units.
TermStart == 1
TermEnd == TermStart + 2 * NSlots

\* the request tasks that run concurrently
Procs == {1, 2}
SlotIds == 1..NSlots
Users == 1..NUsers
\* The timestamps DateTime::from_timestamp can represent, on the same scale;
\* a request carries any i64, so also values outside of them.
TsMin == TermStart - 1
TsMax == TermEnd
Times == (TsMin - 1)..(TsMax + 1)
TagIds == {1}

\* reservation_slots row i covers [SlotStart(i), SlotEnd(i))
SlotStart(i) == TermStart + 2 * (i - 1)
SlotEnd(i) == SlotStart(i) + 2

VARIABLES
    reservation_slots,   \* committed: slot id -> remaining capacity (column slot)
    initial_slots,       \* capacity of each slot in the loaded dataset
    livestreams,         \* committed rows of table livestreams
    livestream_tags,     \* committed rows <<livestream_id, tag_id>>
    icons,               \* committed: user id -> icon hash (0: no row)
    ng_words,            \* committed rows <<user_id, livestream_id>> of ng_words
    livecomments,        \* committed: the livestreams that carry a comment
                         \* containing the word the moderators send
    next_id,             \* AUTO_INCREMENT of livestreams.id
    lock,                \* row lock on each reservation_slots row (0: free)
    caches,              \* AppState: the four moka caches, key -> {} or {value}
    pc,                  \* where each request task is
    loc,                 \* each task's locals (request, transaction, cache call)
    outcome,             \* each task's response: status and what the body tells
    restarts,            \* requests served by a task that had served one before
    invalidated,         \* history: <<cache, key>> invalidated and not looked
                         \* up since
    populator            \* history: the task whose get_or_insert inserted the
                         \* entry of each cache and key (0: no entry)

vars == <<reservation_slots, initial_slots, livestreams, livestream_tags, icons,
          ng_words, livecomments, next_id, lock, caches, pc, loc, outcome, restarts, invalidated,
          populator>>

\* the tables only moderate_handler and the reset write
modvars == <<ng_words, livecomments>>
dbvars == <<reservation_slots, livestreams, livestream_tags, icons, modvars>>
\* what no handler of a request changes
fixed == <<initial_slots, restarts>>
cachevars == <<caches, invalidated, populator>>

\* ------------------------------------------------------------ task locals
\* user, start_at, end_at: the session user and the request; scan, todo: rows
\* still to lock / to loop over; wdec, wlive, wtags, wicon: the transaction's
\* uncommitted writes; arg: the path parameter; model, ret: the models being
\* filled and where the caller of fill_livestream_response continues; snap: the
\* transaction's read view, {} until its first non-locking read; cc, ck, cv:
\* cache, key and value of the task's latest get_or_insert. History of that
\* call: fresh, what the latest committed rows (plus the task's own) gave for
\* the key when the call began; first, whether it was the first call for the
\* key since an invalidate; alone, whether no evaluation for the key was in
\* flight when it began.
NoLoc == [user |-> 0, start_at |-> 0, end_at |-> 0,
          scan |-> {}, todo |-> {}, wdec |-> {}, wlive |-> {}, wtags |-> {},
          wicon |-> {}, arg |-> 0, model |-> {}, ret |-> "", snap |-> {},
          cc |-> "", ck |-> 0, cv |-> {}, fresh |-> {}, first |-> FALSE,
          alone |-> FALSE, checked |-> {}, wng |-> {}, wdel |-> FALSE]

CacheNames == {"user_cache", "tags_cache", "user_id_to_livestreams_cache",
               "livestream_cache"}
\* livestream ids that can exist: the dataset's row and one per booking
MaxLive == Cardinality(Procs) + MaxRestarts + 1
LiveIds == 1..MaxLive
CacheKeys(c) == IF c \in {"user_cache", "user_id_to_livestreams_cache"}
                THEN Users ELSE LiveIds

\* ------------------------------------------------ what a transaction reads
\* the committed rows that non-locking reads see
Committed == [reservation_slots |-> reservation_slots,
              livestreams |-> livestreams, livestream_tags |-> livestream_tags,
              icons |-> icons]
\* the read view of the transaction with locals l
ReadView(l) == IF l.snap = {} THEN Committed ELSE CHOOSE s \in l.snap : TRUE
\* the locals after a non-locking read: the first one fixes the read view
Read(l) == [l EXCEPT !.snap = {ReadView(l)}]

\* Non-locking reads: the read view plus the transaction's own uncommitted rows.
ViewLivestreams(l) == ReadView(l).livestreams \cup l.wlive
ViewTags(l) == ReadView(l).livestream_tags \cup l.wtags

\* SELECT slot FROM reservation_slots WHERE start_at = ? AND end_at = ?: the
\* row of the read view, less the transaction's own decrement
ViewSlot(l, i) ==
    ReadView(l).reservation_slots[i] - (IF i \in l.wdec THEN 1 ELSE 0)

ViewIcon(l, user_id) ==
    IF l.user = user_id /\ l.wicon # {}
    THEN CHOOSE h \in l.wicon : TRUE ELSE ReadView(l).icons[user_id]

\* UserCache::get: SELECT users, then fill_user_response's SELECT icon_hash
UserCache_get(l, user_id) == [id |-> user_id, icon_hash |-> ViewIcon(l, user_id)]
\* TagsCache::get: tags joined with livestream_tags of the livestream
TagsCache_get(l, livestream_id) ==
    {r[2] : r \in {x \in ViewTags(l) : x[1] = livestream_id}}
\* the query written without its WHERE clause: every user's livestreams
UserIdToLivestreamsCache_get_AllRows(l, user_id) ==
    ViewLivestreams(l)
\* UserIdToLivestreamsCache::get: SELECT * FROM livestreams WHERE user_id = ?
UserIdToLivestreamsCache_get(l, user_id) ==
    {m \in ViewLivestreams(l) : m.user_id = user_id}
\* LivestreamCache::get: fetch_optional of the row, {} for None
LivestreamCache_get(l, livestream_id) ==
    {m \in ViewLivestreams(l) : m.id = livestream_id}

\* the get of cache c, run on the transaction with locals l
Population(l, c, k) ==
    CASE c = "user_cache" -> UserCache_get(l, k)
      [] c = "tags_cache" -> TagsCache_get(l, k)
      [] c = "user_id_to_livestreams_cache" -> UserIdToLivestreamsCache_get(l, k)
      [] OTHER -> LivestreamCache_get(l, k)

\* what the backing store holds for the key now: the get run on the latest
\* committed rows (and the caller's own)
Current(l, c, k) == Population([l EXCEPT !.snap = {}], c, k)

\* ------------------------------------------------------- MySqlResultCache
\* program points at which a task evaluates the init future of a get_with
PopPcs == {"flr_user_pop", "flr_tags_pop", "lst_pop", "lst_owner_pop",
           "gls_pop", "rep_pop", "mod_pop"}
\* program points at which a task waits for another task's init future
WaitPcs == {"flr_user_wait", "flr_tags_wait", "lst_wait", "lst_owner_wait",
            "gls_wait", "rep_wait", "mod_wait"}
\* where a waiting task continues once the value is handed to it
Resume(q) == CASE pc[q] = "flr_user_wait" -> "flr_tags_get"
               [] pc[q] = "flr_tags_wait" -> loc[q].ret
               [] pc[q] = "lst_wait" -> "lst_fill"
               [] pc[q] = "lst_owner_wait" -> "lst_owner_get"
               [] pc[q] = "gls_wait" -> "gls_found"
               [] pc[q] = "rep_wait" -> "rep_found"
               [] pc[q] = "mod_wait" -> "mod_check"
               [] OTHER -> "done"

\* the task, if any, whose init future for (c, k) is being evaluated
Leaders(c, k) == {q \in Procs : pc[q] \in PopPcs /\ loc[q].cc = c /\ loc[q].ck = k}
Waiters(c, k) == {q \in Procs : pc[q] \in WaitPcs /\ loc[q].cc = c /\ loc[q].ck = k}

\* the locals of a caller whose get_or_insert(c, k) begins
Called(l, c, k) ==
    [l EXCEPT !.cc = c, !.ck = k, !.cv = {}, !.fresh = {Current(l, c, k)},
              !.first = (<<c, k>> \in invalidated),
              !.alone = (Leaders(c, k) = {})]

\* get_with that starts an evaluation of its own although one is in flight
GetOrInsert_NoCoalesce(p, l, c, k, pcHit, pcPop, pcWait) ==
    /\ UNCHANGED caches
    /\ invalidated' = invalidated \ {<<c, k>>}
    /\ UNCHANGED populator
    /\ IF caches[c][k] # {}
       THEN /\ pc' = [pc EXCEPT ![p] = pcHit]
            /\ loc' = [loc EXCEPT ![p] =
                          [Called(l, c, k) EXCEPT !.cv = caches[c][k]]]
       ELSE /\ pc' = [pc EXCEPT ![p] = pcPop]
            /\ loc' = [loc EXCEPT ![p] =
                          [Called(Read(l), c, k) EXCEPT
                              !.cv = {Population(l, c, k)}]]

\* a cache that serialises the populations of an instance: a caller waits
\* while a population of any key of the instance is in flight
GetOrInsert_InstanceWide(p, l, c, k, pcHit, pcPop, pcWait) ==
    /\ UNCHANGED caches
    /\ invalidated' = invalidated \ {<<c, k>>}
    /\ UNCHANGED populator
    /\ IF caches[c][k] # {}
       THEN /\ pc' = [pc EXCEPT ![p] = pcHit]
            /\ loc' = [loc EXCEPT ![p] =
                          [Called(l, c, k) EXCEPT !.cv = caches[c][k]]]
       ELSE IF \E x \in CacheKeys(c) : Leaders(c, x) # {}
       THEN /\ pc' = [pc EXCEPT ![p] = pcWait]
            /\ loc' = [loc EXCEPT ![p] = Called(l, c, k)]
       ELSE /\ pc' = [pc EXCEPT ![p] = pcPop]
            /\ loc' = [loc EXCEPT ![p] =
                          [Called(Read(l), c, k) EXCEPT
                              !.cv = {Population(l, c, k)}]]

\* get_with given the value of an init already awaited: the query has run
\* before the entry is looked up
GetOrInsert_EagerInit(p, l, c, k, pcHit, pcPop, pcWait) ==
    /\ UNCHANGED caches
    /\ invalidated' = invalidated \ {<<c, k>>}
    /\ UNCHANGED populator
    /\ IF caches[c][k] # {}
       THEN /\ pc' = [pc EXCEPT ![p] = pcHit]
            /\ loc' = [loc EXCEPT ![p] =
                          [Called(Read(l), c, k) EXCEPT !.cv = caches[c][k]]]
       ELSE IF Leaders(c, k) # {}
       THEN /\ pc' = [pc EXCEPT ![p] = pcWait]
            /\ loc' = [loc EXCEPT ![p] = Called(Read(l), c, k)]
       ELSE /\ pc' = [pc EXCEPT ![p] = pcPop]
            /\ loc' = [loc EXCEPT ![p] =
                          [Called(Read(l), c, k) EXCEPT
                              !.cv = {Population(l, c, k)}]]

\* get_or_insert, first half: the entry is returned if present; otherwise the
\* caller joins the evaluation in flight, or starts one and runs its query.
\* l is the caller's locals at the call.
GetOrInsert(p, l, c, k, pcHit, pcPop, pcWait) ==
    /\ UNCHANGED caches
    /\ invalidated' = invalidated \ {<<c, k>>}
    /\ UNCHANGED populator
    /\ IF caches[c][k] # {}
       THEN /\ pc' = [pc EXCEPT ![p] = pcHit]
            /\ loc' = [loc EXCEPT ![p] =
                          [Called(l, c, k) EXCEPT !.cv = caches[c][k]]]
       ELSE IF Leaders(c, k) # {}
       THEN /\ pc' = [pc EXCEPT ![p] = pcWait]
            /\ loc' = [loc EXCEPT ![p] = Called(l, c, k)]
       ELSE /\ pc' = [pc EXCEPT ![p] = pcPop]
            /\ loc' = [loc EXCEPT ![p] =
                          [Called(Read(l), c, k) EXCEPT
                              !.cv = {Population(l, c, k)}]]

\* get_or_insert, second half: the init future has resolved; its value is
\* inserted and handed to the caller and to every waiter.
Populated(p, pcPop, pcNext) ==
    LET c == loc[p].cc
        k == loc[p].ck
        ws == Waiters(c, k)
    IN /\ pc[p] = pcPop
       /\ caches' = [caches EXCEPT ![c][k] = loc[p].cv]
       /\ pc' = [q \in Procs |-> IF q = p THEN pcNext
                                 ELSE IF q \in ws THEN Resume(q) ELSE pc[q]]
       /\ loc' = [q \in Procs |-> IF q \in ws
                                  THEN [loc[q] EXCEPT !.cv = loc[p].cv]
                                  ELSE loc[q]]
       /\ populator' = [populator EXCEPT ![c][k] = p]
       /\ UNCHANGED invalidated

\* invalidate(key) that clears the whole instance
Invalidate_WholeInstance(c, k) ==
    /\ caches' = [caches EXCEPT ![c] = [x \in CacheKeys(c) |-> {}]]
    /\ invalidated' = invalidated \cup {<<c, k>>}
    /\ populator' = [d \in CacheNames |-> [x \in CacheKeys(d) |->
                        IF caches'[d][x] = {} THEN 0 ELSE populator[d][x]]]

\* invalidate(key) that removes the key from every instance that has it
Invalidate_EveryInstance(c, k) ==
    /\ caches' = [d \in CacheNames |-> [x \in CacheKeys(d) |->
                     IF x = k THEN {} ELSE caches[d][x]]]
    /\ invalidated' = invalidated \cup {<<c, k>>}
    /\ populator' = [d \in CacheNames |-> [x \in CacheKeys(d) |->
                        IF caches'[d][x] = {} THEN 0 ELSE populator[d][x]]]

\* invalidate(key): the entry is removed; absent is not an error
Invalidate(c, k) ==
    /\ caches' = [caches EXCEPT ![c][k] = {}]
    /\ invalidated' = invalidated \cup {<<c, k>>}
    /\ populator' = [d \in CacheNames |-> [x \in CacheKeys(d) |->
                        IF caches'[d][x] = {} THEN 0 ELSE populator[d][x]]]

\* invalidate_all(): every entry of the instance is removed
InvalidateAll(cs) ==
    /\ caches' = [c \in CacheNames |->
                    IF c \in cs THEN [k \in CacheKeys(c) |-> {}] ELSE caches[c]]
    /\ populator' = [c \in CacheNames |->
                       IF c \in cs THEN [k \in CacheKeys(c) |-> 0]
                       ELSE populator[c]]
    /\ UNCHANGED invalidated

\* ------------------------------------------------------------ responses
\* a response that carries no booking range
Resp(status) == [status |-> status, start_at |-> 0, end_at |-> 0, step |-> ""]
\* 201 with the Livestream, and the refusal whose message quotes the range
RespRange(status, s, e) ==
    [status |-> status, start_at |-> s, end_at |-> e, step |-> ""]

\* ------------------------------------------------------ transaction ends
\* ROLLBACK / COMMIT release every row lock the transaction holds
Unlock(p) == [i \in SlotIds |-> IF lock[i] = p THEN 0 ELSE lock[i]]

\* the request ends with response `o`; its transaction, if still open, is
\* dropped, which rolls it back
Finish(p, o) ==
    /\ pc' = [pc EXCEPT ![p] = "done"]
    /\ loc' = [loc EXCEPT ![p] = NoLoc]
    /\ outcome' = [outcome EXCEPT ![p] = o]
    /\ lock' = Unlock(p)

\* --------------------------------------------------- failed populations
\* where a waiting task evaluates its own init future if it has to
PopOf(w) == CASE w = "flr_user_wait" -> "flr_user_pop"
              [] w = "flr_tags_wait" -> "flr_tags_pop"
              [] w = "lst_wait" -> "lst_pop"
              [] w = "lst_owner_wait" -> "lst_owner_pop"
              [] w = "rep_wait" -> "rep_pop"
              [] w = "mod_wait" -> "mod_pop"
              [] OTHER -> "gls_pop"

\* a failed population that stores what it has and hands it to the waiters
PopulationPanics_Stores(p) ==
    LET c == loc[p].cc
        k == loc[p].ck
        ws == Waiters(c, k)
    IN /\ pc[p] \in PopPcs
       /\ outcome' = [outcome EXCEPT ![p] = Resp("panic")]
       /\ lock' = Unlock(p)
       /\ caches' = [caches EXCEPT ![c][k] = loc[p].cv]
       /\ pc' = [q \in Procs |-> IF q = p THEN "done"
                                 ELSE IF q \in ws THEN Resume(q) ELSE pc[q]]
       /\ loc' = [q \in Procs |-> IF q = p THEN NoLoc
                                  ELSE IF q \in ws
                                  THEN [loc[q] EXCEPT !.cv = loc[p].cv]
                                  ELSE loc[q]]
       /\ UNCHANGED <<dbvars, fixed, next_id, invalidated, populator>>

\* The query of a population fails, or finds no row where `get` fetches one:
\* the .unwrap() in `get` panics inside the init future. The panic unwinds the
\* caller's task (no response is written, its transaction is dropped); nothing
\* is inserted; get_with restarts on one of the waiting callers, which
\* evaluates its own init future.
PopulationPanics(p) ==
    LET c == loc[p].cc
        k == loc[p].ck
        ws == Waiters(c, k)
    IN /\ pc[p] \in PopPcs
       /\ outcome' = [outcome EXCEPT ![p] = Resp("panic")]
       /\ lock' = Unlock(p)
       /\ IF ws = {}
          THEN /\ pc' = [pc EXCEPT ![p] = "done"]
               /\ loc' = [loc EXCEPT ![p] = NoLoc]
          ELSE \E q \in ws :
                 /\ pc' = [pc EXCEPT ![p] = "done", ![q] = PopOf(pc[q])]
                 /\ loc' = [loc EXCEPT ![p] = NoLoc,
                               ![q] = [Read(loc[q]) EXCEPT
                                         !.cv = {Population(loc[q], c, k)}]]
       /\ UNCHANGED <<dbvars, fixed, next_id, cachevars>>

\* ------------------------------------------- reserve_livestream_handler
\* rows matched by WHERE start_at >= ? AND end_at <= ?
Candidates(start_at, end_at) ==
    {i \in SlotIds : SlotStart(i) >= start_at /\ SlotEnd(i) <= end_at}

\* the range check of the handler
BadTimeRange(start_at, end_at) == start_at >= TermEnd \/ end_at <= TermStart

\* The requests the tasks send: every range the handler refuses, every run of
\* whole slots, and the ranges that are no run of whole slots: one cutting two
\* slots without containing either, one starting before the term, one whose
\* end precedes its start (and, among the runs, an empty one), one whose start
\* has no DateTime.
Requests ==
    {r \in Times \X Times : r[1] >= TermEnd \/ r[2] <= TermStart}
    \cup {<<SlotStart(i), SlotEnd(j)>> : i \in SlotIds, j \in SlotIds}
    \cup {<<SlotStart(1) + 1, SlotEnd(1) + 1>>, <<TermStart - 1, SlotEnd(1)>>,
          <<SlotEnd(1) + 1, SlotStart(1) + 1>>, <<TsMin - 1, SlotEnd(1)>>}

\* the user id held by the session cookie of task p's request
SessionUser(p) == ((p - 1) % NUsers) + 1

\* DateTime::from_timestamp(secs, 0): None outside the representable range
FromTimestamp(t) == IF TsMin <= t /\ t <= TsMax THEN {t} ELSE {}

\* the session's user id and pool.begin()
ReserveBegin(p, reqs) ==
    /\ pc[p] = "idle"
    /\ \E u \in {SessionUser(p)}, r \in reqs :
         loc' = [loc EXCEPT ![p].user = u, ![p].start_at = r[1],
                            ![p].end_at = r[2]]
    /\ pc' = [pc EXCEPT ![p] = "rsv_validate"]
    /\ UNCHANGED <<dbvars, fixed, next_id, lock, cachevars, outcome>>

\* the range check that, refusing, also invalidates the user's list entry
ReserveValidate_Invalidating(p) ==
    LET s == loc[p].start_at
        e == loc[p].end_at
    IN /\ pc[p] = "rsv_validate"
       /\ IF BadTimeRange(s, e)
          THEN /\ Finish(p, Resp("bad_request_range"))
               /\ Invalidate("user_id_to_livestreams_cache", loc[p].user)
          ELSE /\ pc' = [pc EXCEPT ![p] = "rsv_lock"]
               /\ loc' = [loc EXCEPT ![p].scan = Candidates(s, e)]
               /\ UNCHANGED <<outcome, lock, cachevars>>
       /\ UNCHANGED <<dbvars, fixed, next_id>>

\* a handler that reads a row on its transaction before the locking read:
\* the read fixes the read view before any slot is locked
ReserveValidate_ReadsFirst(p) ==
    LET s == loc[p].start_at
        e == loc[p].end_at
    IN /\ pc[p] = "rsv_validate"
       /\ IF FromTimestamp(s) = {} \/ FromTimestamp(e) = {}
          THEN Finish(p, Resp("panic"))
          ELSE IF BadTimeRange(s, e)
          THEN Finish(p, Resp("bad_request_range"))
          ELSE /\ pc' = [pc EXCEPT ![p] = "rsv_lock"]
               /\ loc' = [loc EXCEPT ![p] =
                              [Read(loc[p]) EXCEPT !.scan = Candidates(s, e)]]
               /\ UNCHANGED <<outcome, lock>>
       /\ UNCHANGED <<dbvars, fixed, next_id, cachevars>>

\* the two from_timestamp(..).unwrap(), which panic on None (the task ends
\* without a response and its transaction is dropped), then the check against
\* the booking term
ReserveValidate(p) ==
    LET s == loc[p].start_at
        e == loc[p].end_at
    IN /\ pc[p] = "rsv_validate"
       /\ IF FromTimestamp(s) = {} \/ FromTimestamp(e) = {}
          THEN Finish(p, Resp("panic"))
          ELSE IF BadTimeRange(s, e)
          THEN Finish(p, Resp("bad_request_range"))
          ELSE /\ pc' = [pc EXCEPT ![p] = "rsv_lock"]
               /\ loc' = [loc EXCEPT ![p].scan = Candidates(s, e)]
               /\ UNCHANGED <<outcome, lock>>
       /\ UNCHANGED <<dbvars, fixed, next_id, cachevars>>

\* the handler that runs its UPDATE right after the locking read, leaving the
\* capacity check out of the sequence
ReserveLock_ThenUpdate(p) ==
    /\ pc[p] = "rsv_lock"
    /\ IF loc[p].scan = {}
       THEN /\ pc' = [pc EXCEPT ![p] = "rsv_update"]
            /\ UNCHANGED <<lock, loc>>
       ELSE LET i == CHOOSE x \in loc[p].scan : \A y \in loc[p].scan : x <= y
            IN /\ lock[i] \in {0, p}
               /\ lock' = [lock EXCEPT ![i] = p]
               /\ loc' = [loc EXCEPT ![p].scan = @ \ {i}]
               /\ UNCHANGED pc
    /\ UNCHANGED <<dbvars, fixed, next_id, cachevars, outcome>>

\* the locking read written without FOR UPDATE: the rows are read, not locked
ReserveLock_NoForUpdate(p) ==
    /\ pc[p] = "rsv_lock"
    /\ pc' = [pc EXCEPT ![p] = "rsv_check"]
    /\ loc' = [loc EXCEPT ![p].scan = {},
                          ![p].todo = Candidates(loc[p].start_at, loc[p].end_at)]
    /\ UNCHANGED <<dbvars, fixed, next_id, cachevars, outcome, lock>>

\* the candidates locked by statements of their own, one per row, issued in
\* no particular order
ReserveLock_AnyOrder(p) ==
    /\ pc[p] = "rsv_lock"
    /\ IF loc[p].scan = {}
       THEN /\ pc' = [pc EXCEPT ![p] = "rsv_check"]
            /\ loc' = [loc EXCEPT ![p].todo =
                           Candidates(loc[p].start_at, loc[p].end_at)]
            /\ UNCHANGED lock
       ELSE \E i \in loc[p].scan :
               /\ lock[i] \in {0, p}
               /\ lock' = [lock EXCEPT ![i] = p]
               /\ loc' = [loc EXCEPT ![p].scan = @ \ {i}]
               /\ UNCHANGED pc
    /\ UNCHANGED <<dbvars, fixed, next_id, cachevars, outcome>>

\* the row that the scan of the slot table reaches next: the table is keyed by
\* (start_at, end_at) and a range scan walks its key in ascending order
ScanNext(scan) == CHOOSE x \in scan : \A y \in scan : x <= y

\* SELECT ... FOR UPDATE: the scan locks the matching rows one after the
\* other, in index order, waiting for any row another transaction holds
ReserveLock(p) ==
    /\ pc[p] = "rsv_lock"
    /\ IF loc[p].scan = {}
       THEN /\ pc' = [pc EXCEPT ![p] = "rsv_check"]
            /\ loc' = [loc EXCEPT ![p].todo =
                           Candidates(loc[p].start_at, loc[p].end_at)]
            /\ UNCHANGED lock
       ELSE LET i == ScanNext(loc[p].scan)
            IN /\ lock[i] \in {0, p}
               /\ lock' = [lock EXCEPT ![i] = p]
               /\ loc' = [loc EXCEPT ![p].scan = @ \ {i}]
               /\ UNCHANGED pc
    /\ UNCHANGED <<dbvars, fixed, next_id, cachevars, outcome>>

\* the capacity check written `count < 0`
ReserveCheck_OffByOne(p) ==
    /\ pc[p] = "rsv_check"
    /\ IF loc[p].todo = {}
       THEN /\ pc' = [pc EXCEPT ![p] = "rsv_update"]
            /\ UNCHANGED <<loc, outcome, lock>>
       ELSE LET i == CHOOSE x \in loc[p].todo : \A y \in loc[p].todo : x <= y
            IN IF ViewSlot(Read(loc[p]), i) < 0
               THEN Finish(p, RespRange("bad_request_capacity",
                                         loc[p].start_at, loc[p].end_at))
               ELSE /\ loc' = [loc EXCEPT ![p] =
                                  [Read(loc[p]) EXCEPT !.todo = @ \ {i},
                                      !.checked = @ \cup {i}]]
                    /\ UNCHANGED <<pc, outcome, lock>>
    /\ UNCHANGED <<dbvars, fixed, next_id, cachevars>>

\* the capacity check leaving the loop after its first slot
ReserveCheck_FirstOnly(p) ==
    /\ pc[p] = "rsv_check"
    /\ IF loc[p].todo = {}
       THEN /\ pc' = [pc EXCEPT ![p] = "rsv_update"]
            /\ UNCHANGED <<loc, outcome, lock>>
       ELSE LET i == CHOOSE x \in loc[p].todo : \A y \in loc[p].todo : x <= y
            IN IF ViewSlot(Read(loc[p]), i) < 1
               THEN Finish(p, RespRange("bad_request_capacity",
                                         loc[p].start_at, loc[p].end_at))
               ELSE /\ loc' = [loc EXCEPT ![p].todo = {},
                                      ![p].checked = @ \cup {i}]
                    /\ UNCHANGED <<pc, outcome, lock>>
    /\ UNCHANGED <<dbvars, fixed, next_id, cachevars>>

\* the loop that decrements each slot, in a statement of its own on the pool,
\* as soon as the slot has passed the check
ReserveCheck_DecrementAsChecked(p) ==
    /\ pc[p] = "rsv_check"
    /\ IF loc[p].todo = {}
       THEN /\ pc' = [pc EXCEPT ![p] = "rsv_update"]
            /\ loc' = [loc EXCEPT ![p].wdec = {}]
            /\ UNCHANGED <<outcome, lock, reservation_slots>>
       ELSE LET i == CHOOSE x \in loc[p].todo : \A y \in loc[p].todo : x <= y
            IN IF ViewSlot(Read(loc[p]), i) < 1
               THEN /\ Finish(p, RespRange("bad_request_capacity",
                                            loc[p].start_at, loc[p].end_at))
                    /\ UNCHANGED reservation_slots
               ELSE /\ loc' = [loc EXCEPT ![p] =
                                  [Read(loc[p]) EXCEPT !.todo = @ \ {i},
                                      !.checked = @ \cup {i}]]
                    /\ reservation_slots' =
                          [reservation_slots EXCEPT ![i] = @ - 1]
                    /\ UNCHANGED <<pc, outcome, lock>>
    /\ UNCHANGED <<livestreams, livestream_tags, icons, modvars, fixed, next_id,
                   cachevars>>

\* for slot in slots: SELECT slot ...; if count < 1 the booking is refused.
\* The SELECT is a non-locking read: it reads the transaction's read view,
\* which the first of these reads fixes.
ReserveCheck(p) ==
    /\ pc[p] = "rsv_check"
    /\ IF loc[p].todo = {}
       THEN /\ pc' = [pc EXCEPT ![p] = "rsv_update"]
            /\ UNCHANGED <<loc, outcome, lock>>
       ELSE LET i == CHOOSE x \in loc[p].todo : \A y \in loc[p].todo : x <= y
            IN IF ViewSlot(Read(loc[p]), i) < 1
               THEN Finish(p, RespRange("bad_request_capacity",
                                         loc[p].start_at, loc[p].end_at))
               ELSE /\ loc' = [loc EXCEPT ![p] =
                                  [Read(loc[p]) EXCEPT !.todo = @ \ {i},
                                      !.checked = @ \cup {i}]]
                    /\ UNCHANGED <<pc, outcome, lock>>
    /\ UNCHANGED <<dbvars, fixed, next_id, cachevars>>

\* the UPDATE written without its `AND end_at <= ?`
ReserveUpdate_NoEndBound(p) ==
    LET rows == {i \in SlotIds : SlotStart(i) >= loc[p].start_at}
    IN /\ pc[p] = "rsv_update"
       /\ \A i \in rows : lock[i] \in {0, p}
       /\ lock' = [i \in SlotIds |-> IF i \in rows THEN p ELSE lock[i]]
       /\ loc' = [loc EXCEPT ![p].wdec = rows]
       /\ pc' = [pc EXCEPT ![p] = "rsv_insert"]
       /\ UNCHANGED <<dbvars, fixed, next_id, cachevars, outcome>>

\* the UPDATE executed on the pool instead of the transaction: it commits alone
ReserveUpdate_OnPool(p) ==
    LET rows == Candidates(loc[p].start_at, loc[p].end_at)
    IN /\ pc[p] = "rsv_update"
       /\ \A i \in rows : lock[i] \in {0, p}
       /\ reservation_slots' = [i \in SlotIds |->
             IF i \in rows THEN reservation_slots[i] - 1 ELSE reservation_slots[i]]
       /\ pc' = [pc EXCEPT ![p] = "rsv_insert"]
       /\ UNCHANGED <<livestreams, livestream_tags, icons, modvars, fixed,
                      next_id, cachevars, outcome, lock, loc>>

\* the UPDATE written for every slot that the range overlaps, the SELECT ...
\* FOR UPDATE left as it is
ReserveUpdate_Overlapping(p) ==
    LET rows == {i \in SlotIds : loc[p].start_at < SlotEnd(i)
                                   /\ SlotStart(i) < loc[p].end_at}
    IN /\ pc[p] = "rsv_update"
       /\ \A i \in rows : lock[i] \in {0, p}
       /\ lock' = [i \in SlotIds |-> IF i \in rows THEN p ELSE lock[i]]
       /\ loc' = [loc EXCEPT ![p].wdec = rows]
       /\ pc' = [pc EXCEPT ![p] = "rsv_insert"]
       /\ UNCHANGED <<dbvars, fixed, next_id, cachevars, outcome>>

\* the UPDATE written with `start_at > ?`
ReserveUpdate_StrictStart(p) ==
    LET rows == {i \in SlotIds : SlotStart(i) > loc[p].start_at
                                   /\ SlotEnd(i) <= loc[p].end_at}
    IN /\ pc[p] = "rsv_update"
       /\ \A i \in rows : lock[i] \in {0, p}
       /\ lock' = [i \in SlotIds |-> IF i \in rows THEN p ELSE lock[i]]
       /\ loc' = [loc EXCEPT ![p].wdec = rows]
       /\ pc' = [pc EXCEPT ![p] = "rsv_insert"]
       /\ UNCHANGED <<dbvars, fixed, next_id, cachevars, outcome>>

\* UPDATE reservation_slots SET slot = slot - 1 WHERE start_at >= ? AND
\* end_at <= ?: locks the matching rows and decrements them in the transaction
ReserveUpdate(p) ==
    LET rows == Candidates(loc[p].start_at, loc[p].end_at)
    IN /\ pc[p] = "rsv_update"
       /\ \A i \in rows : lock[i] \in {0, p}
       /\ lock' = [i \in SlotIds |-> IF i \in rows THEN p ELSE lock[i]]
       /\ loc' = [loc EXCEPT ![p].wdec = rows]
       /\ pc' = [pc EXCEPT ![p] = "rsv_insert"]
       /\ UNCHANGED <<dbvars, fixed, next_id, cachevars, outcome>>

\* INSERT INTO livestreams, then user_id_to_livestreams_cache.invalidate
ReserveInsert(p) ==
    /\ pc[p] = "rsv_insert"
    /\ next_id <= MaxLive
    /\ next_id' = next_id + 1
    /\ loc' = [loc EXCEPT ![p].wlive =
                  {[id |-> next_id, user_id |-> loc[p].user,
                    start_at |-> loc[p].start_at, end_at |-> loc[p].end_at]}]
    /\ Invalidate("user_id_to_livestreams_cache", loc[p].user)
    /\ pc' = [pc EXCEPT ![p] = "rsv_tags"]
    /\ UNCHANGED <<dbvars, fixed, lock, outcome>>

\* for tag_id in req.tags: INSERT INTO livestream_tags; then the call of
\* fill_livestream_response with the new row
ReserveTags(p) ==
    /\ pc[p] = "rsv_tags"
    /\ \E tags \in SUBSET TagIds :
         loc' = [loc EXCEPT ![p].wtags =
                                {<<m.id, t>> : m \in loc[p].wlive, t \in tags},
                            ![p].model = loc[p].wlive,
                            ![p].ret = "rsv_commit"]
    /\ pc' = [pc EXCEPT ![p] = "flr_user_get"]
    /\ UNCHANGED <<dbvars, fixed, next_id, lock, cachevars, outcome>>

\* --------------------------------------------- fill_livestream_response
\* user_cache.get_or_insert(tx, livestream_model.user_id)
FillUserGet(p) ==
    /\ pc[p] = "flr_user_get"
    /\ \E m \in loc[p].model :
         GetOrInsert(p, loc[p], "user_cache", m.user_id,
                     "flr_tags_get", "flr_user_pop", "flr_user_wait")
    /\ UNCHANGED <<dbvars, fixed, next_id, lock, outcome>>

FillUserPopulated(p) ==
    /\ Populated(p, "flr_user_pop", "flr_tags_get")
    /\ UNCHANGED <<dbvars, fixed, next_id, lock, outcome>>

\* tags_cache.get_or_insert(tx, livestream_model.id)
FillTagsGet(p) ==
    /\ pc[p] = "flr_tags_get"
    /\ \E m \in loc[p].model :
         GetOrInsert(p, loc[p], "tags_cache", m.id,
                     loc[p].ret, "flr_tags_pop", "flr_tags_wait")
    /\ UNCHANGED <<dbvars, fixed, next_id, lock, outcome>>

FillTagsPopulated(p) ==
    /\ Populated(p, "flr_tags_pop", loc[p].ret)
    /\ UNCHANGED <<dbvars, fixed, next_id, lock, outcome>>

\* tx.commit(): the decrements, the livestream row and its tag rows become
\* the committed state together
ReserveCommit(p) ==
    /\ pc[p] = "rsv_commit"
    /\ reservation_slots' = [i \in SlotIds |->
          IF i \in loc[p].wdec THEN reservation_slots[i] - 1
          ELSE reservation_slots[i]]
    /\ livestreams' = livestreams \cup loc[p].wlive
    /\ livestream_tags' = livestream_tags \cup loc[p].wtags
    /\ Finish(p, RespRange("created", loc[p].start_at, loc[p].end_at))
    /\ UNCHANGED <<icons, modvars, fixed, next_id, cachevars>>

\* a query of the open transaction fails (connection lost, lock wait timeout,
\* deadlock victim, constraint violation): `?` returns the error and the
\* dropped transaction is rolled back
ReserveTxPcs == {"rsv_lock", "rsv_check", "rsv_update", "rsv_insert", "rsv_tags",
                 "rsv_commit"}

\* a handler that, when its locking read fails, rolls back and runs the
\* transaction again from the locking read
ReserveFail_Retrying(p) ==
    /\ pc[p] \in ReserveTxPcs
    /\ IF pc[p] = "rsv_lock"
       THEN /\ lock' = Unlock(p)
            /\ loc' = [loc EXCEPT ![p].scan =
                           Candidates(loc[p].start_at, loc[p].end_at)]
            /\ UNCHANGED <<pc, outcome>>
       ELSE Finish(p, [Resp("server_error") EXCEPT !.step = pc[p]])
    /\ UNCHANGED <<dbvars, fixed, next_id, cachevars>>

\* a handler that commits what its transaction wrote before it returns the
\* error
ReserveFail_KeepsDecrement(p) ==
    /\ pc[p] \in ReserveTxPcs
    /\ reservation_slots' = [i \in SlotIds |->
          IF i \in loc[p].wdec THEN reservation_slots[i] - 1
          ELSE reservation_slots[i]]
    /\ Finish(p, [Resp("server_error") EXCEPT !.step = pc[p]])
    /\ UNCHANGED <<livestreams, livestream_tags, icons, modvars, fixed, next_id,
                   cachevars>>

\* the outcome records, in `step`, the statement whose query failed
ReserveFail(p) ==
    /\ pc[p] \in ReserveTxPcs
    /\ Finish(p, [Resp("server_error") EXCEPT !.step = pc[p]])
    /\ UNCHANGED <<dbvars, fixed, next_id, cachevars>>

\* ----------------------------------------- get_user_livestreams_handler
\* pool.begin() and SELECT * FROM users WHERE name = ?
ListBegin(p) ==
    /\ pc[p] = "idle"
    /\ \E u \in Users :
         loc' = [loc EXCEPT ![p] = [Read(loc[p]) EXCEPT
                                      !.user = SessionUser(p), !.arg = u]]
    /\ pc' = [pc EXCEPT ![p] = "lst_get"]
    /\ UNCHANGED <<dbvars, fixed, next_id, lock, cachevars, outcome>>

\* user_id_to_livestreams_cache.get_or_insert(&mut tx, user.id)
ListGet(p) ==
    /\ pc[p] = "lst_get"
    /\ GetOrInsert(p, loc[p], "user_id_to_livestreams_cache", loc[p].arg,
                   "lst_fill", "lst_pop", "lst_wait")
    /\ UNCHANGED <<dbvars, fixed, next_id, lock, outcome>>

ListPopulated(p) ==
    /\ Populated(p, "lst_pop", "lst_fill")
    /\ UNCHANGED <<dbvars, fixed, next_id, lock, outcome>>

\* fill_livestream_responses: fill_tags_for_livestreams reads the tags of the
\* models with a query of its own on the transaction (no cache is consulted or
\* filled), then the loop over the models starts
ListFill(p) ==
    /\ pc[p] = "lst_fill"
    /\ \E v \in loc[p].cv :
         loc' = [loc EXCEPT ![p].model = v, ![p].todo = {m.id : m \in v}]
    /\ pc' = [pc EXCEPT ![p] = "lst_owner_get"]
    /\ UNCHANGED <<dbvars, fixed, next_id, lock, cachevars, outcome>>

\* for model in livestream_models: user_cache.get_or_insert(tx, model.user_id)
ListOwnerGet(p) ==
    /\ pc[p] = "lst_owner_get"
    /\ IF loc[p].todo = {}
       THEN /\ pc' = [pc EXCEPT ![p] = "lst_commit"]
            /\ UNCHANGED <<loc, cachevars>>
       ELSE LET i == CHOOSE x \in loc[p].todo : \A y \in loc[p].todo : x <= y
                m == CHOOSE x \in loc[p].model : x.id = i
            IN GetOrInsert(p, [loc[p] EXCEPT !.todo = @ \ {i}],
                           "user_cache", m.user_id,
                           "lst_owner_get", "lst_owner_pop", "lst_owner_wait")
    /\ UNCHANGED <<dbvars, fixed, next_id, lock, outcome>>

ListOwnerPopulated(p) ==
    /\ Populated(p, "lst_owner_pop", "lst_owner_get")
    /\ UNCHANGED <<dbvars, fixed, next_id, lock, outcome>>

\* tx.commit() and the response
ListCommit(p) ==
    /\ pc[p] = "lst_commit"
    /\ Finish(p, Resp("ok"))
    /\ UNCHANGED <<dbvars, fixed, next_id, cachevars>>

\* a query of the handler itself fails
ListFail(p) ==
    /\ pc[p] \in {"lst_get", "lst_fill", "lst_commit"}
    /\ Finish(p, Resp("server_error"))
    /\ UNCHANGED <<dbvars, fixed, next_id, cachevars>>

\* ------------------------------------------------ get_livestream_handler
\* pool.begin()
GetLivestreamBegin(p) ==
    /\ pc[p] = "idle"
    /\ \E id \in LiveIds :
         loc' = [loc EXCEPT ![p].user = SessionUser(p), ![p].arg = id]
    /\ pc' = [pc EXCEPT ![p] = "gls_get"]
    /\ UNCHANGED <<dbvars, fixed, next_id, lock, cachevars, outcome>>

\* livestream_cache.get_or_insert(&mut tx, livestream_id)
GetLivestreamGet(p) ==
    /\ pc[p] = "gls_get"
    /\ GetOrInsert(p, loc[p], "livestream_cache", loc[p].arg,
                   "gls_found", "gls_pop", "gls_wait")
    /\ UNCHANGED <<dbvars, fixed, next_id, lock, outcome>>

GetLivestreamPopulated(p) ==
    /\ Populated(p, "gls_pop", "gls_found")
    /\ UNCHANGED <<dbvars, fixed, next_id, lock, outcome>>

\* .ok_or(Error::NotFound(..))?, else the call of fill_livestream_response
GetLivestreamFound(p) ==
    /\ pc[p] = "gls_found"
    /\ \E v \in loc[p].cv :
         IF v = {}
         THEN Finish(p, Resp("not_found"))
         ELSE /\ loc' = [loc EXCEPT ![p].model = v, ![p].ret = "gls_commit"]
              /\ pc' = [pc EXCEPT ![p] = "flr_user_get"]
              /\ UNCHANGED <<outcome, lock>>
    /\ UNCHANGED <<dbvars, fixed, next_id, cachevars>>

\* tx.commit() and the response
GetLivestreamCommit(p) ==
    /\ pc[p] = "gls_commit"
    /\ Finish(p, Resp("ok"))
    /\ UNCHANGED <<dbvars, fixed, next_id, cachevars>>

\* pool.begin() or tx.commit() fails
GetLivestreamFail(p) ==
    /\ pc[p] \in {"gls_get", "gls_commit"}
    /\ Finish(p, Resp("server_error"))
    /\ UNCHANGED <<dbvars, fixed, next_id, cachevars>>

\* --------------------------------------- get_livecomment_reports_handler
\* the session's user id and pool.begin()
ReportsBegin(p) ==
    /\ pc[p] = "idle"
    /\ \E id \in LiveIds :
         loc' = [loc EXCEPT ![p].user = SessionUser(p), ![p].arg = id]
    /\ pc' = [pc EXCEPT ![p] = "rep_get"]
    /\ UNCHANGED <<dbvars, fixed, next_id, lock, cachevars, outcome>>

\* livestream_cache.get_or_insert(&mut tx, livestream_id)
ReportsGet(p) ==
    /\ pc[p] = "rep_get"
    /\ GetOrInsert(p, loc[p], "livestream_cache", loc[p].arg,
                   "rep_found", "rep_pop", "rep_wait")
    /\ UNCHANGED <<dbvars, fixed, next_id, lock, outcome>>

ReportsPopulated(p) ==
    /\ Populated(p, "rep_pop", "rep_found")
    /\ UNCHANGED <<dbvars, fixed, next_id, lock, outcome>>

\* .ok_or(Error::Sqlx(sqlx::Error::RowNotFound))?, which into_response turns
\* into 500; Forbidden for another streamer's livestream; else the SELECT of
\* the livestream's reports, of which the dataset has none
ReportsFound(p) ==
    /\ pc[p] = "rep_found"
    /\ \E v \in loc[p].cv :
         IF v = {}
         THEN Finish(p, Resp("server_error"))
         ELSE IF \E m \in v : m.user_id # loc[p].user
         THEN Finish(p, Resp("forbidden"))
         ELSE /\ loc' = [loc EXCEPT ![p] = Read(loc[p])]
              /\ pc' = [pc EXCEPT ![p] = "rep_commit"]
              /\ UNCHANGED <<outcome, lock>>
    /\ UNCHANGED <<dbvars, fixed, next_id, cachevars>>

\* tx.commit() and the response
ReportsCommit(p) ==
    /\ pc[p] = "rep_commit"
    /\ Finish(p, Resp("ok"))
    /\ UNCHANGED <<dbvars, fixed, next_id, cachevars>>

\* pool.begin(), the SELECT or tx.commit() fails
ReportsFail(p) ==
    /\ pc[p] \in {"rep_get", "rep_commit"}
    /\ Finish(p, Resp("server_error"))
    /\ UNCHANGED <<dbvars, fixed, next_id, cachevars>>

\* ----------------------------------------------------- post_icon_handler
\* the hash of the posted image, and pool.begin()
IconBegin(p) ==
    /\ pc[p] = "idle"
    /\ \E h \in 1..MaxIcon :
         loc' = [loc EXCEPT ![p].user = SessionUser(p), ![p].arg = h]
    /\ pc' = [pc EXCEPT ![p] = "ico_delete"]
    /\ UNCHANGED <<dbvars, fixed, next_id, lock, cachevars, outcome>>

\* DELETE FROM icons WHERE user_id = ?, then user_cache.invalidate(&user_id)
IconDelete(p) ==
    /\ pc[p] = "ico_delete"
    /\ loc' = [loc EXCEPT ![p].wicon = {0}]
    /\ Invalidate("user_cache", loc[p].user)
    /\ pc' = [pc EXCEPT ![p] = "ico_insert"]
    /\ UNCHANGED <<dbvars, fixed, next_id, lock, outcome>>

\* INSERT INTO icons (user_id, icon_hash), then SELECT name FROM users
IconInsert(p) ==
    /\ pc[p] = "ico_insert"
    /\ loc' = [loc EXCEPT ![p] = [Read(loc[p]) EXCEPT !.wicon = {loc[p].arg}]]
    /\ pc' = [pc EXCEPT ![p] = "ico_commit"]
    /\ UNCHANGED <<dbvars, fixed, next_id, lock, cachevars, outcome>>

\* tx.commit(): the user's icon row is replaced
IconCommit(p) ==
    /\ pc[p] = "ico_commit"
    /\ icons' = [icons EXCEPT ![loc[p].user] = loc[p].arg]
    /\ Finish(p, Resp("created"))
    /\ UNCHANGED <<reservation_slots, livestreams, livestream_tags, modvars,
                   fixed, next_id, cachevars>>

\* a handler whose DELETE and INSERT run on the pool: each is committed as it
\* is executed, whatever happens afterwards
IconFail_Committing(p) ==
    /\ pc[p] \in {"ico_delete", "ico_insert", "ico_commit"}
    /\ icons' = [icons EXCEPT ![loc[p].user] =
                    IF loc[p].wicon = {} THEN @ ELSE CHOOSE h \in loc[p].wicon : TRUE]
    /\ Finish(p, Resp("server_error"))
    /\ UNCHANGED <<reservation_slots, livestreams, livestream_tags, modvars,
                   fixed, next_id, cachevars>>

\* a query of the open transaction fails
IconFail(p) ==
    /\ pc[p] \in {"ico_delete", "ico_insert", "ico_commit"}
    /\ Finish(p, Resp("server_error"))
    /\ UNCHANGED <<dbvars, fixed, next_id, cachevars>>

\* -------------------------------------------------------- moderate_handler
\* the session's user, the livestream of the path, and pool.begin()
ModerateBegin(p) ==
    /\ pc[p] = "idle"
    /\ \E k \in LiveIds :
         loc' = [loc EXCEPT ![p] = [loc[p] EXCEPT
                                      !.user = SessionUser(p), !.arg = k]]
    /\ pc' = [pc EXCEPT ![p] = "mod_get"]
    /\ UNCHANGED <<dbvars, fixed, next_id, lock, cachevars, outcome>>

\* user_id_to_livestreams_cache.get_or_insert(&mut tx, user_id)
ModerateGet(p) ==
    /\ pc[p] = "mod_get"
    /\ GetOrInsert(p, loc[p], "user_id_to_livestreams_cache", loc[p].user,
                   "mod_check", "mod_pop", "mod_wait")
    /\ UNCHANGED <<dbvars, fixed, next_id, lock, outcome>>

ModeratePopulated(p) ==
    /\ Populated(p, "mod_pop", "mod_check")
    /\ UNCHANGED <<dbvars, fixed, next_id, lock, outcome>>

\* .into_iter().find(|model| model.id == livestream_id).ok_or(BadRequest)?
ModerateCheck(p) ==
    /\ pc[p] = "mod_check"
    /\ \E v \in loc[p].cv :
         IF \E model \in v : model.id = loc[p].arg
         THEN /\ pc' = [pc EXCEPT ![p] = "mod_insert"]
              /\ UNCHANGED <<loc, outcome, lock>>
         ELSE Finish(p, Resp("bad_request_owner"))
    /\ UNCHANGED <<dbvars, fixed, next_id, cachevars>>

\* INSERT INTO ng_words(user_id, livestream_id, word, created_at)
ModerateInsert(p) ==
    /\ pc[p] = "mod_insert"
    /\ loc' = [loc EXCEPT ![p].wng = {<<loc[p].user, loc[p].arg>>}]
    /\ pc' = [pc EXCEPT ![p] = "mod_delete"]
    /\ UNCHANGED <<dbvars, fixed, next_id, lock, cachevars, outcome>>

\* DELETE FROM livecomments WHERE comment LIKE CONCAT('%', ?, '%'): the
\* statement names no livestream, the matching comments of all go
ModerateDelete(p) ==
    /\ pc[p] = "mod_delete"
    /\ loc' = [loc EXCEPT ![p].wdel = TRUE]
    /\ pc' = [pc EXCEPT ![p] = "mod_commit"]
    /\ UNCHANGED <<dbvars, fixed, next_id, lock, cachevars, outcome>>

\* tx.commit() and 201
ModerateCommit(p) ==
    /\ pc[p] = "mod_commit"
    /\ ng_words' = ng_words \cup loc[p].wng
    /\ livecomments' = IF loc[p].wdel THEN {} ELSE livecomments
    /\ Finish(p, Resp("created"))
    /\ UNCHANGED <<reservation_slots, livestreams, livestream_tags, icons,
                   fixed, next_id, cachevars>>

\* a query of the open transaction fails
ModerateFail(p) ==
    /\ pc[p] \in {"mod_get", "mod_insert", "mod_delete", "mod_commit"}
    /\ Finish(p, Resp("server_error"))
    /\ UNCHANGED <<dbvars, fixed, next_id, cachevars>>

\* ---------------------------------------------------- initialize_handler
\* the livestreams of the dataset that ../sql/init.sh loads
SeedLivestreams == {[id |-> 1, user_id |-> NUsers,
                     start_at |-> SlotStart(NSlots), end_at |-> SlotEnd(NSlots)]}

\* init.sh reloads the dataset (or fails and leaves the tables as they are);
\* then invalidate_all() on user_cache, tags_cache and
\* user_id_to_livestreams_cache; then the response. The reset is issued while
\* no other request is in progress.
InitializeRun(p) ==
    /\ pc[p] = "idle"
    /\ \A q \in Procs \ {p} : pc[q] \in {"idle", "done"}
    /\ \E ok \in BOOLEAN :
         /\ reservation_slots' = IF ok THEN initial_slots ELSE reservation_slots
         /\ livestreams' = IF ok THEN SeedLivestreams ELSE livestreams
         /\ livestream_tags' = IF ok THEN {} ELSE livestream_tags
         /\ icons' = IF ok THEN [u \in Users |-> 0] ELSE icons
         /\ ng_words' = IF ok THEN {} ELSE ng_words
         /\ livecomments' = IF ok THEN {} ELSE livecomments
         /\ next_id' = IF ok THEN 2 ELSE next_id
         /\ Finish(p, Resp(IF ok THEN "ok" ELSE "server_error"))
    /\ InvalidateAll({"user_cache", "tags_cache", "user_id_to_livestreams_cache"})
    /\ UNCHANGED fixed

\* ------------------------------------------------------------ the server
\* a task that has answered a request takes the next one
NewRequest(p) ==
    /\ pc[p] = "done"
    /\ restarts < MaxRestarts
    /\ restarts' = restarts + 1
    /\ pc' = [pc EXCEPT ![p] = "idle"]
    /\ outcome' = [outcome EXCEPT ![p] = Resp("none")]
    /\ UNCHANGED <<dbvars, initial_slots, next_id, lock, cachevars, loc>>

\* the statements that await nothing: the range check, the ok_or on the
\* livestream found and the find among the user's livestreams
SyncPcs == {"rsv_validate", "gls_found", "mod_check"}

\* the client goes away while the handler is suspended on a query or waits
\* for a population: the server drops the handler's future, and with it the
\* transaction, which is rolled back; no response is written. (A caller
\* dropped while it evaluates a population leaves the cache as a population
\* that panics does.)
Abandon(p) ==
    /\ pc[p] \notin {"idle", "done"} \cup PopPcs \cup SyncPcs
    /\ Finish(p, Resp("abandoned"))
    /\ UNCHANGED <<dbvars, fixed, next_id, cachevars>>

\* the task takes its next request, the requests being served one at a time
NewRequestInTurn(p) ==
    /\ pc[p] = "done"
    /\ restarts < MaxSeq
    /\ restarts' = restarts + 1
    /\ pc' = [pc EXCEPT ![p] = "idle"]
    /\ outcome' = [outcome EXCEPT ![p] = Resp("none")]
    /\ UNCHANGED <<dbvars, initial_slots, next_id, lock, cachevars, loc>>

\* a task takes its next request, among the requests that moderate
NewRequestOfRound(p) ==
    /\ pc[p] = "done"
    /\ restarts < MaxRounds
    /\ restarts' = restarts + 1
    /\ pc' = [pc EXCEPT ![p] = "idle"]
    /\ outcome' = [outcome EXCEPT ![p] = Resp("none")]
    /\ UNCHANGED <<dbvars, initial_slots, next_id, lock, cachevars, loc>>

\* --------------------------------------------------------- the dataset
EmptyCaches == [c \in CacheNames |-> [k \in CacheKeys(c) |-> {}]]

InitTasks ==
    /\ pc = [p \in Procs |-> "idle"]
    /\ loc = [p \in Procs |-> NoLoc]
    /\ outcome = [p \in Procs |-> Resp("none")]
    /\ lock = [i \in SlotIds |-> 0]
    /\ caches = EmptyCaches
    /\ invalidated = {}
    /\ populator = [c \in CacheNames |-> [k \in CacheKeys(c) |-> 0]]
    /\ restarts = 0

\* booking: a dataset with no livestream yet and any slot capacities
Init ==
    /\ InitTasks
    /\ initial_slots \in [SlotIds -> 0..MaxCap]
    /\ reservation_slots = initial_slots
    /\ livestreams = {}
    /\ livestream_tags = {}
    /\ icons = [u \in Users |-> 0]
    /\ ng_words = {}
    /\ livecomments = {}
    /\ next_id = 1

Next ==
    \E p \in Procs :
        \/ ReserveBegin(p, Requests)
        \/ ReserveValidate(p)
        \/ ReserveLock(p)
        \/ ReserveCheck(p)
        \/ ReserveUpdate(p)
        \/ ReserveInsert(p)
        \/ ReserveTags(p)
        \/ FillUserGet(p)
        \/ FillUserPopulated(p)
        \/ FillTagsGet(p)
        \/ FillTagsPopulated(p)
        \/ ReserveCommit(p)
        \/ ReserveFail(p)

Spec == Init /\ [][Next]_vars

\* a dataset with every slot at full capacity and one livestream, of the
\* last user, already there
InitSeeded ==
    /\ InitTasks
    /\ initial_slots = [i \in SlotIds |-> MaxCap]
    /\ reservation_slots = initial_slots
    /\ livestreams = SeedLivestreams
    /\ livestream_tags = {}
    /\ icons = [u \in Users |-> 0]
    /\ ng_words = {}
    /\ livecomments = {}
    /\ next_id = 2

\* the bookings of the tasks that also list: one whole slot
SlotRequests == {<<SlotStart(1), SlotEnd(1)>>}

ReserveSteps(p) ==
    \/ ReserveValidate(p)
    \/ ReserveLock(p)
    \/ ReserveCheck(p)
    \/ ReserveUpdate(p)
    \/ ReserveInsert(p)
    \/ ReserveTags(p)
    \/ FillUserGet(p)
    \/ FillUserPopulated(p)
    \/ FillTagsGet(p)
    \/ FillTagsPopulated(p)
    \/ ReserveCommit(p)
    \/ ReserveFail(p)

ListSteps(p) ==
    \/ ListBegin(p)
    \/ ListGet(p)
    \/ ListPopulated(p)
    \/ ListFill(p)
    \/ ListOwnerGet(p)
    \/ ListOwnerPopulated(p)
    \/ ListCommit(p)
    \/ ListFail(p)

\* bookings and listings of the users' livestreams, side by side
NextList ==
    \E p \in Procs :
        \/ ReserveBegin(p, SlotRequests)
        \/ ReserveSteps(p)
        \/ ListSteps(p)
        \/ NewRequest(p)

SpecList == InitSeeded /\ [][NextList]_vars

\* icon posts and listings of the users' livestreams, side by side
NextIcon ==
    \E p \in Procs :
        \/ IconBegin(p)
        \/ IconDelete(p)
        \/ IconInsert(p)
        \/ IconCommit(p)
        \/ IconFail(p)
        \/ ListSteps(p)
        \/ NewRequest(p)

SpecIcon == InitSeeded /\ [][NextIcon]_vars

\* bookings, reads of single livestreams and resets of the dataset
NextInit ==
    \E p \in Procs :
        \/ ReserveBegin(p, SlotRequests)
        \/ ReserveSteps(p)
        \/ GetLivestreamBegin(p)
        \/ GetLivestreamGet(p)
        \/ GetLivestreamPopulated(p)
        \/ GetLivestreamFound(p)
        \/ GetLivestreamCommit(p)
        \/ GetLivestreamFail(p)
        \/ InitializeRun(p)
        \/ NewRequest(p)

SpecInit == InitSeeded /\ [][NextInit]_vars

GetLivestreamSteps(p) ==
    \/ GetLivestreamBegin(p)
    \/ GetLivestreamGet(p)
    \/ GetLivestreamPopulated(p)
    \/ GetLivestreamFound(p)
    \/ GetLivestreamCommit(p)
    \/ GetLivestreamFail(p)

\* bookings, listings and reads of single livestreams, side by side
NextRead ==
    \E p \in Procs :
        \/ ReserveBegin(p, SlotRequests)
        \/ ReserveSteps(p)
        \/ ListSteps(p)
        \/ GetLivestreamSteps(p)
        \/ NewRequest(p)

SpecRead == InitSeeded /\ [][NextRead]_vars

\* reads of single livestreams and of their reports
NextReports ==
    \E p \in Procs :
        \/ GetLivestreamSteps(p)
        \/ FillUserGet(p)
        \/ FillUserPopulated(p)
        \/ FillTagsGet(p)
        \/ FillTagsPopulated(p)
        \/ ReportsBegin(p)
        \/ ReportsGet(p)
        \/ ReportsPopulated(p)
        \/ ReportsFound(p)
        \/ ReportsCommit(p)
        \/ ReportsFail(p)
        \/ NewRequest(p)

SpecReports == InitSeeded /\ [][NextReports]_vars

\* one request per task, of any handler but the reset of the dataset
NextAll ==
    \E p \in Procs :
        \/ ReserveBegin(p, SlotRequests)
        \/ ReserveSteps(p)
        \/ ListSteps(p)
        \/ GetLivestreamSteps(p)
        \/ ReportsBegin(p)
        \/ ReportsGet(p)
        \/ ReportsPopulated(p)
        \/ ReportsFound(p)
        \/ ReportsCommit(p)
        \/ ReportsFail(p)
        \/ IconBegin(p)
        \/ IconDelete(p)
        \/ IconInsert(p)
        \/ IconCommit(p)
        \/ IconFail(p)
        \/ PopulationPanics(p)
        \/ Abandon(p)

SpecAll == InitSeeded /\ [][NextAll]_vars

\* bookings, reads of single livestreams and resets of the dataset, one
\* request after the other
NextSeq ==
    \E p \in {1} :
        \/ ReserveBegin(p, SlotRequests)
        \/ ReserveSteps(p)
        \/ GetLivestreamSteps(p)
        \/ InitializeRun(p)
        \/ NewRequestInTurn(p)

SpecSeq == InitSeeded /\ [][NextSeq]_vars

\* the seeded dataset once a comment that contains the word has been posted
\* to its livestream
InitCommented ==
    /\ InitTasks
    /\ initial_slots = [i \in SlotIds |-> MaxCap]
    /\ reservation_slots = initial_slots
    /\ livestreams = SeedLivestreams
    /\ livestream_tags = {}
    /\ icons = [u \in Users |-> 0]
    /\ ng_words = {}
    /\ livecomments = {m.id : m \in SeedLivestreams}
    /\ next_id = 2

ModerateSteps(p) ==
    \/ ModerateBegin(p)
    \/ ModerateGet(p)
    \/ ModeratePopulated(p)
    \/ ModerateCheck(p)
    \/ ModerateInsert(p)
    \/ ModerateDelete(p)
    \/ ModerateCommit(p)
    \/ ModerateFail(p)

\* bookings, moderations and resets of the dataset
NextModerate ==
    \E p \in Procs :
        \/ ReserveBegin(p, SlotRequests)
        \/ ReserveSteps(p)
        \/ ModerateSteps(p)
        \/ InitializeRun(p)
        \/ NewRequestOfRound(p)

SpecModerate == InitCommented /\ [][NextModerate]_vars

\* listings and reads of single livestreams, with populations that fail
NextFail ==
    \E p \in Procs :
        \/ ListSteps(p)
        \/ GetLivestreamSteps(p)
        \/ FillUserGet(p)
        \/ FillUserPopulated(p)
        \/ FillTagsGet(p)
        \/ FillTagsPopulated(p)
        \/ PopulationPanics(p)
        \/ NewRequest(p)

SpecFail == InitSeeded /\ [][NextFail]_vars

\* ======================================================== the reservation
\* the requested range of row m contains slot i whole
Contains(m, i) == SlotStart(i) >= m.start_at /\ SlotEnd(i) <= m.end_at
\* the requested range of row m and slot i have a moment in common
Overlaps(m, i) == m.start_at < SlotEnd(i) /\ SlotStart(i) < m.end_at

C2_SlotsNonNegative == \A i \in SlotIds : reservation_slots[i] >= 0

\* two bookings of one slot have both run to their end and the slot, of
\* capacity 1, stands at 0
C2_Witness ==
    \E i \in SlotIds, p \in Procs, q \in Procs :
        /\ p # q
        /\ initial_slots[i] = 1 /\ reservation_slots[i] = 0
        /\ outcome[p].status = "created"
        /\ i \in Candidates(outcome[p].start_at, outcome[p].end_at)
        /\ outcome[q].status = "bad_request_capacity"
        /\ i \in Candidates(outcome[q].start_at, outcome[q].end_at)

\* the livestream rows a step commits
NewRows == livestreams' \ livestreams

C4_AtomicBooking ==
    [][/\ \/ UNCHANGED <<reservation_slots, livestreams, livestream_tags>>
          \/ \E p \in Procs :
                /\ pc[p] = "rsv_commit" /\ outcome'[p].status = "created"
                /\ Cardinality(loc[p].wlive) = 1
                /\ livestreams' = livestreams \cup loc[p].wlive
                /\ livestream_tags' = livestream_tags \cup loc[p].wtags
                /\ \A i \in SlotIds :
                      reservation_slots'[i] = reservation_slots[i] -
                        (IF i \in Candidates(loc[p].start_at, loc[p].end_at)
                         THEN 1 ELSE 0)
       /\ \A p \in Procs :
             (outcome'[p] # outcome[p] /\ outcome'[p].status # "created")
                 => UNCHANGED <<reservation_slots, livestreams, livestream_tags>>]_vars

\* one booking failed after its INSERT had taken an id, another was refused
\* for capacity, and nothing of either is in the tables
C4_Witness ==
    \E p \in Procs, q \in Procs :
        /\ outcome[p].status = "server_error"
        /\ outcome[q].status = "bad_request_capacity"
        /\ next_id > 1
        /\ livestreams = {} /\ livestream_tags = {}
        /\ reservation_slots = initial_slots

\* C5: one slot of capacity 1, two tasks that both ask for exactly that slot and
\* both run to a response without a store failure, every other task idle:
\* exactly one is created, the other is refused for capacity, the slot stands
\* at 0; and a task checking capacity holds the lock of every row it checks.
C5_OneOfTwo ==
    /\ \A p \in Procs, q \in Procs, i \in SlotIds :
          ( /\ p # q
            /\ initial_slots[i] = 1
            /\ \A r \in Procs \ {p, q} : pc[r] = "idle"
            /\ \A r \in {p, q} :
                  /\ pc[r] = "done"
                  /\ outcome[r].status \in {"created", "bad_request_capacity"}
                  /\ outcome[r].start_at = SlotStart(i)
                  /\ outcome[r].end_at = SlotEnd(i) )
          => /\ {outcome[p].status, outcome[q].status}
                    = {"created", "bad_request_capacity"}
             /\ reservation_slots[i] = 0
    /\ \A p \in Procs :
          pc[p] = "rsv_check" => \A i \in loc[p].todo : lock[i] = p

\* the scenario has run to its end
C5_Witness ==
    \E p \in Procs, q \in Procs, i \in SlotIds :
        /\ p # q
        /\ initial_slots[i] = 1 /\ reservation_slots[i] = 0
        /\ \A r \in Procs \ {p, q} : pc[r] = "idle"
        /\ pc[p] = "done" /\ pc[q] = "done"
        /\ outcome[p] = RespRange("created", SlotStart(i), SlotEnd(i))
        /\ outcome[q] = RespRange("bad_request_capacity", SlotStart(i), SlotEnd(i))

\* ============================================================= the caches
\* task p's latest get_or_insert, on cache c, has returned
Returned(p, c) == loc[p].cc = c /\ pc[p] \notin PopPcs \cup WaitPcs

\* C6, as stated: a lookup of a user's livestream list returns every
\* livestream of that user that was committed when the lookup began.
C6_ListHasCommitted ==
    \A p \in Procs :
        Returned(p, "user_id_to_livestreams_cache") =>
            \A f \in loc[p].fresh, v \in loc[p].cv :
                {m.id : m \in f} \subseteq {m.id : m \in v}

\* C7, as stated: the first get_or_insert(K) after an invalidate(K), in a
\* sequence of calls (none for K is in flight when it begins), returns what the
\* backing store holds for K when it begins.
C7_FirstAfterInvalidateIsCurrent ==
    \A p \in Procs, c \in CacheNames :
        (Returned(p, c) /\ loc[p].first /\ loc[p].alone) =>
            loc[p].cv = loc[p].fresh

\* C8, as stated: a user-cache lookup that begins once an icon post of the user
\* has committed returns a User whose icon_hash is the committed icon's.
C8_LookupHasPostedIcon ==
    \A p \in Procs :
        Returned(p, "user_cache") =>
            \A f \in loc[p].fresh, v \in loc[p].cv :
                f.icon_hash # 0 => v.icon_hash = f.icon_hash

\* C9 single-flight: for calls that find no entry for the key, at most one
\* evaluation of the population is in flight, callers that arrive meanwhile wait
\* for it, and when it resolves the one value it read is what the cache holds
\* and what the evaluating caller and every waiting caller receive.
C9_SingleFlight ==
    [][\A c \in CacheNames : \A k \in CacheKeys(c) :
          /\ Cardinality(Leaders(c, k)') <= 1
          /\ Waiters(c, k)' # {} => Leaders(c, k)' # {}
          /\ \A p \in Leaders(c, k) :
                p \notin Leaders(c, k)' =>
                    /\ caches'[c][k] = loc[p].cv
                    /\ Waiters(c, k)' = {}
                    /\ \A q \in Waiters(c, k) \cup {p} :
                          /\ pc'[q] \notin PopPcs \cup WaitPcs
                          /\ loc'[q].cc = c /\ loc'[q].ck = k
                          /\ loc'[q].cv = loc[p].cv]_vars

\* two callers of one key at once: one evaluates, the other waits
C9_Witness ==
    \E c \in CacheNames : \E k \in CacheKeys(c) :
        Leaders(c, k) # {} /\ Waiters(c, k) # {}

\* C10, as stated: when initialize_handler completes, no cache instance holds
\* an entry.
C10_ResetClearsEveryCache ==
    [][(\E p \in Procs : InitializeRun(p)) => caches' = EmptyCaches]_vars

\* ===================================================== request validation
\* C11, as stated: a booking request is answered with the bad-time-range
\* error exactly if start_at >= window end or end_at <= window start.
C11_RangeRejectedIff ==
    [][\A p \in Procs :
          (pc[p] = "rsv_validate" /\ pc'[p] # "rsv_validate") =>
              (outcome'[p].status = "bad_request_range"
                 <=> BadTimeRange(loc[p].start_at, loc[p].end_at))]_vars

\* C12: the request that the range check refuses has, up to and including the
\* refusal, read no row, locked or updated no reservation_slots row, inserted
\* nothing and invalidated no cache entry.
C12_RejectedTouchesNothing ==
    [][\A p \in Procs :
          (pc[p] = "rsv_validate" /\ outcome'[p].status = "bad_request_range") =>
              /\ UNCHANGED <<dbvars, next_id, lock, caches, invalidated>>
              /\ \A i \in SlotIds : lock[i] # p
              /\ loc[p].snap = {} /\ loc[p].cc = ""
              /\ loc[p].wdec = {} /\ loc[p].wlive = {} /\ loc[p].wtags = {}]_vars

\* a request lying before the window was refused while a booking of the other
\* task was under way
C12_Witness ==
    \E p \in Procs, q \in Procs :
        /\ outcome[p].status = "bad_request_range"
        /\ pc[q] \in ReserveTxPcs

\* C13, as stated: every committed reservation lies within the booking window.
C13_CommittedWithinWindow ==
    \A m \in livestreams : TermStart <= m.start_at /\ m.end_at <= TermEnd

\* =========================================================== invalidation
\* the cache instances after invalidate(k) on instance c
Invalidated(cs, c, k) == [cs EXCEPT ![c][k] = {}]
ListCache == "user_id_to_livestreams_cache"

C18_InvalidateFrame ==
    [][\A p \in Procs :
          ReserveInsert(p) =>
              \A c \in CacheNames : \A k \in CacheKeys(c) :
                  IF c = ListCache /\ k = loc[p].user
                  THEN caches'[c][k] = {}
                  ELSE caches'[c][k] = caches[c][k]]_vars

\* a reservation has just invalidated its user's list while another user's
\* list and a livestream-by-id entry holding a row are cached
C18_Witness ==
    \E p \in Procs :
        /\ pc[p] = "rsv_tags"
        /\ caches[ListCache][loc[p].user] = {}
        /\ \E u \in Users \ {loc[p].user} : caches[ListCache][u] # {}
        /\ \E k \in LiveIds : caches["livestream_cache"][k] \notin {{}, {{}}}

\* ==================================================== failed populations
\* C15: when the repository read of a population fails, nothing is stored:
\* the key has no entry afterwards, every other entry is as it was, and the
\* callers waiting for that population are handed no value of it (one of them
\* reads the store itself).
C15_FailedPopulationStoresNothing ==
    [][\A p \in Procs :
          (pc[p] \in PopPcs /\ outcome'[p].status = "panic") =>
              /\ caches' = caches
              /\ caches'[loc[p].cc][loc[p].ck] = {}
              /\ \A q \in Waiters(loc[p].cc, loc[p].ck) :
                    /\ pc'[q] \in PopPcs \cup WaitPcs
                    /\ pc'[q] \in PopPcs =>
                          loc'[q].cv = {Population(loc'[q], loc[p].cc, loc[p].ck)}
                    /\ pc'[q] \in WaitPcs => loc'[q].cv = {}]_vars

\* a population failed while another caller waited for it: that caller, which
\* had joined an evaluation in flight, now evaluates the population itself
C15_Witness ==
    \E p \in Procs, q \in Procs :
        /\ outcome[p].status = "panic" /\ pc[p] = "done"
        /\ pc[q] \in PopPcs /\ ~loc[q].alone
        /\ caches[loc[q].cc][loc[q].ck] = {}

\* C16, as stated: a population whose repository read fails ends the calling
\* handler with the server-error response.
C16_FailedPopulationIsServerError ==
    [][\A p \in Procs :
          (pc[p] \in PopPcs /\ pc'[p] = "done") =>
              outcome'[p].status = "server_error"]_vars

\* ========================================================== missing rows
\* C19, as stated: a handler whose livestream-by-id lookup finds no row ends
\* the request with the not-found client error.
C19_MissingRowIsNotFound ==
    [][\A p \in Procs :
          (pc[p] \in {"gls_found", "rep_found"} /\ loc[p].cv = {{}}
             /\ pc'[p] # pc[p]) =>
              outcome'[p].status = "not_found"]_vars

\* ============================================= writes behind cached keys
\* what a fresh read of key k of cache c returns, on the committed rows
FreshRead(c, k) == Current(NoLoc, c, k)
\* the entry that the committing handler has invalidated
InvalidatedBy(p) == IF pc[p] = "rsv_commit" THEN <<ListCache, loc[p].user>>
                    ELSE <<"user_cache", loc[p].user>>

\* C17, as stated: a commit of a write handler makes no cached entry, other
\* than the one the handler invalidates, differ from a fresh read of its key;
\* entries of the livestream-by-id cache that record an absent row included.
C17_CommitKeepsEntriesFresh ==
    [][\A p \in Procs :
          (pc[p] \in {"rsv_commit", "ico_commit"} /\ dbvars' # dbvars) =>
              \A c \in CacheNames : \A k \in CacheKeys(c) :
                  (<<c, k>> # InvalidatedBy(p) /\ caches[c][k] = {FreshRead(c, k)})
                      => caches'[c][k] = {FreshRead(c, k)'}]_vars

\* ============================================ transactions that end badly
\* how a request whose transaction committed is answered
CommittedStatus == {"created", "ok"}

\* C20, as stated: when a transaction ends without having committed, no cache
\* holds an entry that one of its populations inserted. (Stated for the first
\* request of each task, whose transaction the history variable identifies.)
C20_UncommittedPopulatesNothing ==
    [][\A p \in Procs :
          (restarts = 0 /\ pc[p] \notin {"idle", "done"} /\ pc'[p] = "done"
             /\ outcome'[p].status \notin CommittedStatus) =>
              \A c \in CacheNames : \A k \in CacheKeys(c) :
                  populator'[c][k] # p]_vars

\* ================================================= the booking's statements
\* C21: a failure of the store during the booking's locking read ends the
\* request with the server-error response at once: from the locking read a
\* booking only locks one more row, goes on to the capacity check with every
\* row locked, or ends with server_error and no lock held; it never starts
\* the read again, and once ended it takes no further step.
C21_LockFailureEndsAttempt ==
    [][\A p \in Procs :
          /\ (pc[p] = "rsv_lock" /\ <<pc'[p], loc'[p]>> # <<pc[p], loc[p]>>) =>
                \/ /\ pc'[p] = "rsv_lock"
                   /\ loc'[p].scan \subseteq loc[p].scan
                   /\ loc'[p].scan # loc[p].scan
                \/ /\ pc'[p] = "rsv_check"
                   /\ loc[p].scan = {}
                \/ /\ pc'[p] = "done"
                   /\ outcome'[p] = [Resp("server_error") EXCEPT !.step = "rsv_lock"]
                   /\ \A i \in SlotIds : lock'[i] # p
          /\ (pc[p] = "done" /\ outcome[p].step = "rsv_lock") =>
                /\ pc'[p] = "done"
                /\ outcome'[p] = outcome[p]]_vars

\* a booking's locking read failed while another booking held a row of its
\* range (a lock wait that timed out): it ended with server_error
C21_Witness ==
    \E p \in Procs, q \in Procs :
        /\ pc[p] = "done"
        /\ outcome[p].status = "server_error"
        /\ outcome[p].step = "rsv_lock"
        /\ pc[q] \in {"rsv_check", "rsv_update"}
        /\ \E i \in SlotIds : lock[i] = q

\* the statements of fill_livestream_response, between the tag rows and commit
FillPcs == {"flr_user_get", "flr_user_pop", "flr_user_wait",
            "flr_tags_get", "flr_tags_pop", "flr_tags_wait"}

\* C22: the statements of a booking run one after the other in this order:
\* range validation, the locking read (ended with every candidate locked),
\* the check of every candidate, the decrement of all candidates, the insert
\* of the livestream row with the invalidation of the owner's list entry
\* behind it, commit; a booking is answered 201 only from its commit, whose
\* step publishes the decrements and the row that the earlier steps wrote.
C22_StepsInOrder ==
    [][\A p \in Procs :
          LET cand == Candidates(loc[p].start_at, loc[p].end_at)
          IN pc'[p] # pc[p] =>
               /\ pc'[p] = "rsv_validate" => pc[p] = "idle"
               /\ pc'[p] = "rsv_lock" => pc[p] = "rsv_validate"
               /\ pc'[p] = "rsv_check" =>
                     /\ pc[p] = "rsv_lock"
                     /\ \A i \in cand : lock'[i] = p
               /\ pc'[p] = "rsv_update" =>
                     /\ pc[p] = "rsv_check"
                     /\ loc[p].todo = {}
                     /\ loc[p].wdec = {}
               /\ pc'[p] = "rsv_insert" =>
                     /\ pc[p] = "rsv_update"
                     /\ loc'[p].wdec = cand
                     /\ loc[p].wlive = {}
               /\ pc'[p] = "rsv_tags" =>
                     /\ pc[p] = "rsv_insert"
                     /\ loc[p].wdec = cand
                     /\ loc'[p].wlive # {}
                     /\ <<ListCache, loc[p].user>> \in invalidated'
                     /\ caches'[ListCache][loc[p].user] = {}
               /\ pc'[p] = "flr_user_get" => pc[p] = "rsv_tags"
               /\ pc'[p] = "rsv_commit" =>
                     /\ pc[p] \in FillPcs
                     /\ dbvars' = dbvars
               /\ outcome'[p].status = "created" =>
                     /\ pc[p] = "rsv_commit"
                     /\ loc[p].wdec = cand
                     /\ NewRows = loc[p].wlive
                     /\ NewRows # {}
                     /\ \A i \in SlotIds :
                           reservation_slots'[i] = reservation_slots[i]
                               - (IF i \in cand THEN 1 ELSE 0)]_vars

\* a booking went through every statement and was answered 201: its row is
\* committed and each slot of its range holds one less than the dataset gave
C22_Witness ==
    \E p \in Procs :
        /\ pc[p] = "done"
        /\ outcome[p].status = "created"
        /\ \E m \in livestreams :
              /\ m.start_at = outcome[p].start_at
              /\ m.end_at = outcome[p].end_at
              /\ Candidates(m.start_at, m.end_at) # {}
              /\ \A i \in Candidates(m.start_at, m.end_at) :
                    reservation_slots[i] = initial_slots[i] - 1

\* C23: a booking that passed the range check is refused for capacity if and
\* only if one of the slots it locked holds less than 1 when it is checked:
\* the refusal comes from the check alone and with such a slot, the check is
\* passed only with every slot at 1 or more, and the refusing step changes no
\* slot, the booking having written none, not even the slots that passed.
C23_RejectedIffSlotExhausted ==
    [][\A p \in Procs :
          LET cand == Candidates(loc[p].start_at, loc[p].end_at)
          IN /\ outcome'[p].status = "bad_request_capacity"
                  /\ outcome[p].status # "bad_request_capacity" =>
                   /\ pc[p] = "rsv_check"
                   /\ \A i \in cand : lock[i] = p
                   /\ \E i \in cand : reservation_slots[i] < 1
                   /\ loc[p].wdec = {}
                   /\ reservation_slots' = reservation_slots
                   /\ \A i \in SlotIds : lock'[i] # p
             /\ pc[p] = "rsv_check" /\ pc'[p] = "rsv_update" =>
                   /\ \A i \in cand : lock[i] = p /\ reservation_slots[i] >= 1
                   /\ reservation_slots' = reservation_slots
             /\ pc[p] = "rsv_check" /\ loc'[p].todo # loc[p].todo =>
                   /\ loc'[p].wdec = {}
                   /\ reservation_slots' = reservation_slots]_vars

\* a booking of two slots was refused at its second slot, the first holding 1
\* and the second 0: both slots hold what the dataset gave them
C23_Witness ==
    \E p \in Procs :
        /\ pc[p] = "done"
        /\ outcome[p] = RespRange("bad_request_capacity",
                                  SlotStart(1), SlotEnd(2))
        /\ reservation_slots[1] >= 1
        /\ reservation_slots[2] < 1
        /\ reservation_slots = initial_slots

\* ============================================================ cache hits
\* where a handler calls get_or_insert
GetPcs == {"flr_user_get", "flr_tags_get", "lst_get", "lst_owner_get",
           "gls_get", "rep_get"}

\* C24: get_or_insert(K) on an instance that holds an entry for K hands the
\* caller that entry's value and goes on without evaluating the population:
\* no query runs on the caller's transaction (its read view is as before the
\* call), and every instance holds what it held.
C24_HitReturnsEntry ==
    [][\A p \in Procs :
          (pc[p] \in GetPcs /\ pc'[p] \notin {pc[p], "done"}) =>
              LET c == loc'[p].cc
                  k == loc'[p].ck
              IN caches[c][k] # {} =>
                   /\ loc'[p].cv = caches[c][k]
                   /\ pc'[p] \notin PopPcs \cup WaitPcs
                   /\ loc'[p].snap = loc[p].snap
                   /\ caches' = caches
                   /\ populator' = populator]_vars

\* a read of a livestream found its row in the livestream-by-id cache before
\* its transaction had run any query: it holds the entry's value and still
\* has no read view
C24_Witness ==
    \E p \in Procs :
        /\ pc[p] = "gls_found"
        /\ loc[p].cv = caches["livestream_cache"][loc[p].arg]
        /\ loc[p].cv \notin {{}, {{}}}
        /\ populator["livestream_cache"][loc[p].arg] # p
        /\ loc[p].snap = {}

\* ============================================= what the cached values hold
\* C25, as stated: at every moment the rows that a cached value holds are
\* committed rows: each tag of a tags-cache entry is a committed
\* livestream_tags row of its livestream, and each livestream of a list or
\* livestream-by-id entry is a committed livestreams row. (No row is deleted
\* here, so a row that is not committed was written by a transaction that has
\* not committed.)
C25_EntriesHoldCommittedRows ==
    /\ \A k \in LiveIds : \A v \in caches["tags_cache"][k] :
           \A t \in v : <<k, t>> \in livestream_tags
    /\ \A u \in Users : \A v \in caches[ListCache][u] : v \subseteq livestreams
    /\ \A k \in LiveIds : \A v \in caches["livestream_cache"][k] :
           v \subseteq livestreams

\* ===================================================== parts of responses
\* C26, as stated: each cached part of a composite response is obtained by
\* get_or_insert on its cache. A get_or_insert leaves an entry behind (here
\* nothing removes a tags or user entry), so when a list of livestreams is
\* answered the tags cache holds an entry for each livestream of the list and
\* the user cache one for each owner.
C26_PartsComeFromCaches ==
    [][\A p \in Procs :
          (pc[p] = "lst_commit" /\ outcome'[p].status = "ok") =>
              \A m \in loc[p].model :
                  /\ caches["user_cache"][m.user_id] # {}
                  /\ caches["tags_cache"][m.id] # {}]_vars

C28_OtherKeysNeverWait ==
    /\ \A p \in Procs :
           pc[p] \in WaitPcs => Leaders(loc[p].cc, loc[p].ck) # {}
    /\ \A p \in Procs :
           /\ pc[p] = "lst_get" => ENABLED ListGet(p)
           /\ pc[p] = "lst_owner_get" => ENABLED ListOwnerGet(p)
           /\ pc[p] = "flr_user_get" => ENABLED FillUserGet(p)
           /\ pc[p] = "flr_tags_get" => ENABLED FillTagsGet(p)
           /\ (pc[p] = "rsv_insert" /\ next_id <= MaxLive) =>
                 ENABLED ReserveInsert(p)

\* the lists of two users are being populated at once: the second caller
\* found the first one's population in flight on the instance and started
\* its own
C28_Witness ==
    \E p \in Procs : \E q \in Procs \ {p} :
        /\ pc[p] = "lst_pop" /\ pc[q] = "lst_pop"
        /\ loc[p].cc = loc[q].cc
        /\ loc[p].ck # loc[q].ck

\* ======================================================= who writes slots
\* C29: a slot's remaining capacity changes only in the commit of a booking
\* that decremented it in its transaction and holds its row lock, by one; no
\* step of a listing, a read of a livestream, a report listing or an icon
\* post changes a slot; and a booking's transaction holds a decrement of a
\* slot only while it holds the slot's lock.
C29_SlotsChangeUnderLock ==
    [][/\ \A i \in SlotIds :
             reservation_slots'[i] # reservation_slots[i] =>
                 \E p \in Procs :
                     /\ pc[p] = "rsv_commit"
                     /\ outcome'[p].status = "created"
                     /\ lock[i] = p
                     /\ i \in loc[p].wdec
                     /\ reservation_slots'[i] = reservation_slots[i] - 1
       /\ \A p \in Procs : \A i \in loc'[p].wdec : lock'[i] = p
       /\ \A p \in Procs :
             (pc[p] \notin ReserveTxPcs \cup {"done"}
                /\ loc[p].ret # "rsv_commit" /\ pc'[p] # pc[p]) =>
                 reservation_slots' = reservation_slots]_vars

\* a booking has committed its decrement of the first slot while the other
\* task's icon post is in its transaction
C29_Witness ==
    \E p \in Procs : \E q \in Procs \ {p} :
        /\ outcome[p].status = "created"
        /\ reservation_slots[1] = initial_slots[1] - 1
        /\ pc[q] \in {"ico_delete", "ico_insert", "ico_commit"}

\* ============================================================= rollback
\* C30: a request that ends without its commit (a query, a population or the
\* commit failed, or the request was abandoned) leaves the committed rows as
\* they were and holds no lock: none of the rows its transaction wrote is
\* there for another transaction to read; and while a transaction is open the
\* livestream and tag rows it wrote are not among the committed rows.
C30_UncommittedWritesVanish ==
    [][/\ \A p \in Procs :
             (pc[p] \notin {"idle", "done"} /\ pc'[p] = "done"
                /\ outcome'[p].status \notin CommittedStatus) =>
                 /\ dbvars' = dbvars
                 /\ loc'[p] = NoLoc
                 /\ \A i \in SlotIds : lock'[i] # p
       /\ \A p \in Procs :
             /\ loc'[p].wlive \cap livestreams' = {}
             /\ loc'[p].wtags \cap livestream_tags' = {}]_vars

\* a booking that had decremented its slot and inserted its row and tag failed
\* at its commit: the slots and the livestreams are those of the dataset
C30_Witness ==
    \E p \in Procs :
        /\ pc[p] = "done"
        /\ outcome[p].status = "server_error"
        /\ outcome[p].step = "rsv_commit"
        /\ next_id > 2
        /\ reservation_slots = initial_slots
        /\ livestreams = SeedLivestreams
        /\ livestream_tags = {}
        /\ \A i \in SlotIds : lock[i] # p

\* ==================================================== the value checked
\* C31: the value that the check reads for a candidate slot is the slot's
\* latest committed capacity, read while the booking holds the slot's lock:
\* no decrement committed by another booking is missing from it.
C31_CheckReadsLatest ==
    [][\A p \in Procs :
          (pc[p] = "rsv_check" /\ loc[p].todo # {} /\ loc'[p] # loc[p]) =>
              LET i == ScanNext(loc[p].todo)
              IN /\ lock[i] = p
                 /\ ViewSlot(Read(loc[p]), i) = reservation_slots[i]]_vars

\* a booking is checking a slot that another booking, now answered 201, had
\* locked and decremented first: it holds the lock and has yet to read
C31_Witness ==
    \E p \in Procs : \E q \in Procs \ {p} :
        /\ pc[p] = "rsv_check"
        /\ loc[p].todo # {}
        /\ outcome[q].status = "created"
        /\ \E i \in loc[p].todo :
              /\ lock[i] = p
              /\ i \in Candidates(outcome[q].start_at, outcome[q].end_at)
              /\ reservation_slots[i] = initial_slots[i] - 1

\* ================================== invalidation during a population
\* C32, as stated: an invalidate(K) issued while a population of K is in
\* flight is not lost. When the population completes with K invalidated since
\* its caller looked K up (and K not looked up again), the value it read is
\* older than the invalidate, so K must be left without an entry.
C32_InvalidateNotLost ==
    [][\A p \in Procs :
          (pc[p] \in PopPcs /\ pc'[p] \notin PopPcs \cup {"done"}
             /\ <<loc[p].cc, loc[p].ck>> \in invalidated) =>
              caches'[loc[p].cc][loc[p].ck] = {}]_vars

\* =================================================== the slot accounting
\* C33: in every committed state, for every slot, the capacity the dataset
\* gave the slot less the capacity it has left is the number of committed
\* reservations whose range contains the slot whole.
C33_SlotAccounting ==
    \A i \in SlotIds :
        initial_slots[i] - reservation_slots[i] =
            Cardinality({m \in livestreams : Contains(m, i)})

\* two reservations are committed, one containing the first slot only and
\* one containing the last only, and no task is in a transaction
C33_Witness ==
    /\ \A p \in Procs : pc[p] = "done"
    /\ \E m \in livestreams : Contains(m, 1) /\ ~Contains(m, NSlots)
    /\ \E m \in livestreams : Contains(m, NSlots) /\ ~Contains(m, 1)
    /\ reservation_slots[1] = initial_slots[1] - 1
    /\ reservation_slots[NSlots] = initial_slots[NSlots] - 1

\* ==================================================== what is decremented
\* C34: the slots that a booking's UPDATE decrements are the slots that its
\* locking read locked, each of which its loop has checked: none is
\* decremented without lock and check, none checked is left out, and the
\* UPDATE locks no further slot.
C34_DecrementsWhatItChecked ==
    [][\A p \in Procs :
          (pc[p] = "rsv_update" /\ pc'[p] = "rsv_insert") =>
              /\ loc'[p].wdec = {i \in SlotIds : lock[i] = p}
              /\ loc'[p].wdec = loc[p].checked
              /\ \A i \in SlotIds : (lock'[i] = p) = (lock[i] = p)]_vars

\* a booking of two slots has decremented both in its transaction, having
\* locked and checked both, while the slots of the committed state are full
C34_Witness ==
    \E p \in Procs :
        /\ pc[p] = "rsv_insert"
        /\ Cardinality(loc[p].wdec) > 1
        /\ loc[p].checked = loc[p].wdec
        /\ \A i \in loc[p].wdec : lock[i] = p /\ reservation_slots[i] = MaxCap

\* ================================================ what a booking commits
\* C35, as stated: every booking that commits has decremented at least one
\* slot: each committed reservation contains a whole slot, and the step that
\* commits one lowers some slot.
C35_CommitDecrementsSome ==
    [][/\ \A m \in livestreams' : \E i \in SlotIds : Contains(m, i)
       /\ NewRows # {} =>
             \E i \in SlotIds : reservation_slots'[i] < reservation_slots[i]]_vars

\* C36, as stated: every committed reservation has start_at < end_at.
C36_CommittedRangeIsOrdered ==
    \A m \in livestreams : m.start_at < m.end_at

\* ===================================================== cached tag lists
\* C37, as stated: whenever the tags cache holds an entry for livestream id L
\* and a committed livestream row with id L exists, the cached tag list is the
\* committed tag set of L.
C37_CachedTagsAreCommitted ==
    \A k \in LiveIds :
        (caches["tags_cache"][k] # {} /\ \E m \in livestreams : m.id = k) =>
            caches["tags_cache"][k] = {{r[2] : r \in {x \in livestream_tags : x[1] = k}}}

\* ============================================================ moderation
\* the store holds a committed livestream with id k owned by user u
Owns(u, k) == \E m \in livestreams : m.id = k /\ m.user_id = u
\* the step is the commit of a moderation by task p
Moderates(p) == pc[p] = "mod_commit" /\ outcome'[p].status = "created"

\* the step is a reset of the dataset
Resets == \E p \in Procs : pc[p] = "idle" /\ pc'[p] = "done"

====
